---- MODULE Spec2Model ----
(***************************************************************************)
(* A model of the translation / language-detection / site-deployment      *)
(* service: src/server.py (the Flask routes) and src/utils.py (the local  *)
(* model backend).                                                         *)
(*                                                                         *)
(* Three specifications share the module:                                  *)
(*   SpecDeploy  one /deploy job, step by step (server.py 143-309)         *)
(*   SpecApi     /api/translate and /api/detect-language requests handled  *)
(*               one after another (server.py 38-140, utils.py 210-330)    *)
(*   SpecModel   concurrent requests racing on the lazily initialised      *)
(*               model/tokenizer globals (utils.py 52-196, 227-330)        *)
(***************************************************************************)
EXTENDS Integers, Sequences, FiniteSets, TLC

VARIABLES
    \* ---- /deploy job (server.py deploy_to_netlify) ----
    dpc,            \* position of the job in deploy_to_netlify
    api_key,        \* request.form.get('api_key') or request.headers.get('X-API-Key')
    zip_file,       \* the uploaded file part of the request (request.files)
    netlify_pat,    \* os.getenv("NETLIFY_PAT")
    temp_dir,       \* local temp_dir: "None" or the directory's name
    fs_temp,        \* the temporary directories that exist on disk
    extracted,      \* the tree under extract_dir (a set of entries)
    scan_order,     \* the order in which the file system lists names
    site_id,        \* id of the site the provider created
    processed_zip,  \* entries of processed.zip
    calls,          \* outbound calls to the hosting provider, in order
    steps,          \* pipeline steps the job has completed, in order
    response,       \* the HTTP response of the job
    cleanup_failed, \* shutil.rmtree raised in the finally block
    \* ---- module globals of utils.py ----
    model,          \* "None" or "loaded"
    tokenizer,      \* "None" or "loaded"
    \* ---- /api/translate and /api/detect-language, one request at a time ----
    a_req,          \* the request being handled, or handled last
    a_resp,         \* its response, once it is handled
    a_backend,      \* what the handler did with the backend for it
    \* ---- concurrent requests inside language_translate / detect_language ----
    t_pc,           \* each request thread's position
    t_fn,           \* the function each thread runs
    t_result,       \* outcome of each thread's current request
    tok_loads,      \* completed AutoTokenizer.from_pretrained calls
    model_loads,    \* completed AutoModelForCausalLM.from_pretrained calls
    init_failed     \* some initialize_model call has failed

dvars == <<dpc, api_key, zip_file, netlify_pat, temp_dir, fs_temp, extracted,
           scan_order, site_id, processed_zip, calls, steps, response,
           cleanup_failed>>
gvars == <<model, tokenizer>>
avars == <<a_req, a_resp, a_backend>>
mvars == <<t_pc, t_fn, t_result, tok_loads, model_loads, init_failed>>
vars == <<dvars, gvars, avars, mvars>>

(***************************************************************************)
(* Python values that reach the handlers: None, a string (a sequence of   *)
(* characters) or a number.                                                *)
(***************************************************************************)
PyNone == [t |-> "none", s |-> <<>>, n |-> 0]
PyStr(s) == [t |-> "str", s |-> s, n |-> 0]
PyInt(n) == [t |-> "int", s |-> <<>>, n |-> n]

\* bool(v): None, "" and 0 are falsy
Truthy(v) ==
    CASE v.t = "none" -> FALSE
      [] v.t = "str" -> Len(v.s) > 0
      [] OTHER -> v.n # 0

IsStr(v) == v.t = "str"

\* a or b
PyOr(a, b) == IF Truthy(a) THEN a ELSE b

RECURSIVE LStrip(_)
LStrip(s) == IF s # <<>> /\ Head(s) = " " THEN LStrip(Tail(s)) ELSE s

RECURSIVE RStrip(_)
RStrip(s) ==
    IF s # <<>> /\ s[Len(s)] = " " THEN RStrip(SubSeq(s, 1, Len(s) - 1)) ELSE s

\* str.strip()
Strip(s) == RStrip(LStrip(s))

\* is_api_key_valid(api_key)[0]
is_api_key_valid(k) ==
    ~ (~ Truthy(k) \/ ~ IsStr(k) \/ ~ (Len(Strip(k.s)) > 0))

\* the keys a caller sends in a form field or a header
FormKeys == {PyNone, PyStr(<<>>), PyStr(<<" ">>), PyStr(<<"k">>)}
HeaderKeys == {PyNone, PyStr(<<" ", " ">>), PyStr(<<" ", "k">>)}
EnvTokens == {PyNone, PyStr(<<>>), PyStr(<<"t">>)}

(***************************************************************************)
(* The extracted tree.  A name is a stem and an extension; a path is a    *)
(* sequence of names relative to extract_dir; an entry is a file or a     *)
(* directory at a path.  A file's content is the path it had in the       *)
(* uploaded archive, so two files of the archive never share content.     *)
(***************************************************************************)
Nm(stem, ext) == [stem |-> stem, ext |-> ext]
SiteName == Nm("site", "")
IndexName == Nm("index", ".html")
AboutName == Nm("About", ".HTM")
StyleName == Nm("style", ".css")
Names == {SiteName, IndexName, AboutName, StyleName}

\* str.lower() on an extension
Lower(ext) ==
    CASE ext = ".HTM" -> ".htm"
      [] ext = ".HTML" -> ".html"
      [] OTHER -> ext

\* filename.lower().endswith(('.html', '.htm'))
IsHtmlName(nm) == Lower(nm.ext) \in {".html", ".htm"}

MaxEntries == 3

Entry(path, isdir, content) == [path |-> path, isdir |-> isdir, content |-> content]
FileEntry(path) == Entry(path, FALSE, path)
DirEntry(path) == Entry(path, TRUE, <<>>)

Paths(tree) == {e.path : e \in tree}
Exists(tree, path) == path \in Paths(tree)
IsDir(tree, path) == path = <<>> \/ \E e \in tree : e.path = path /\ e.isdir
IsFile(tree, path) == \E e \in tree : e.path = path /\ ~ e.isdir
ContentAt(tree, path) == (CHOOSE e \in tree : e.path = path).content
Parent(path) == SubSeq(path, 1, Len(path) - 1)
Basename(path) == path[Len(path)]
IsPrefix(p, q) == Len(p) <= Len(q) /\ SubSeq(q, 1, Len(p)) = p

\* the trees a valid archive of at most n entries extracts to
RECURSIVE TreesUpTo(_)
TreesUpTo(n) ==
    IF n = 0 THEN {{}}
    ELSE LET prev == TreesUpTo(n - 1)
             Grow(t) ==
                 { t \cup {IF d THEN DirEntry(par \o <<nm>>) ELSE FileEntry(par \o <<nm>>)} :
                     <<par, nm, d>> \in
                         { x \in ({<<>>} \cup {e.path : e \in {f \in t : f.isdir}})
                                   \X Names \X BOOLEAN :
                               ~ Exists(t, x[1] \o <<x[2]>>) } }
         IN prev \cup UNION {Grow(t) : t \in prev}

Trees == TreesUpTo(MaxEntries)

\* the orders a file system lists the names of a directory in
ScanOrders ==
    { <<SiteName, IndexName, AboutName, StyleName>>,
      <<StyleName, AboutName, IndexName, SiteName>> }

(***************************************************************************)
(* File-system operations on the tree.                                     *)
(***************************************************************************)
\* os.listdir(dir): the names in dir, in the file system's order
ListDir(tree, dir, order) ==
    SelectSeq(order, LAMBDA nm : Exists(tree, dir \o <<nm>>))

\* os.rename(src, dst) of a file or a whole subtree
Renamed(tree, src, dst) ==
    {e \in tree : ~ IsPrefix(src, e.path) /\ e.path # dst}
        \cup { Entry(dst \o SubSeq(e.path, Len(src) + 1, Len(e.path)), e.isdir, e.content) :
                 e \in {f \in tree : IsPrefix(src, f.path)} }

\* shutil.move(src, dst): into dst when dst is a directory, refusing to
\* replace what is already there; otherwise a rename
Move(tree, src, dst) ==
    LET real_dst == IF IsDir(tree, dst) THEN dst \o <<Basename(src)>> ELSE dst
    IN  IF IsDir(tree, dst) /\ Exists(tree, real_dst)
        THEN [ok |-> FALSE, tree |-> tree]      \* shutil.Error: already exists
        ELSE IF Exists(tree, real_dst) /\ IsDir(tree, src)
        THEN [ok |-> FALSE, tree |-> tree]      \* a directory onto a file
        ELSE [ok |-> TRUE, tree |-> Renamed(tree, src, real_dst)]

\* the loop of lines 209-213 from its i-th item on
RECURSIVE MoveAll(_, _, _, _)
MoveAll(tree, nested, items, i) ==
    IF i > Len(items) THEN [ok |-> TRUE, tree |-> tree]
    ELSE LET r == Move(tree, nested \o <<items[i]>>, <<items[i]>>)
         IN  IF r.ok THEN MoveAll(r.tree, nested, items, i + 1) ELSE r

\* os.rmdir(path): only an empty directory is removed
Rmdir(tree, path) ==
    IF \E e \in tree : Parent(e.path) = path /\ Len(e.path) > 0
    THEN [ok |-> FALSE, tree |-> tree]
    ELSE [ok |-> TRUE, tree |-> {e \in tree : e.path # path}]

\* lines 203-215: flatten a single top-level directory
FlattenTree(tree, order) ==
    LET extracted_items == ListDir(tree, <<>>, order)
    IN  IF Len(extracted_items) = 1 /\ IsDir(tree, <<extracted_items[1]>>)
        THEN LET nested_dir == <<extracted_items[1]>>
                 moved == MoveAll(tree, nested_dir,
                                  ListDir(tree, nested_dir, order), 1)
             IN  IF moved.ok THEN Rmdir(moved.tree, nested_dir) ELSE moved
        ELSE [ok |-> TRUE, tree |-> tree]

\* os.walk(dir), top-down: the files of dir in listing order, then the walk
\* of each of its subdirectories in listing order
RECURSIVE Walk(_, _, _)
RECURSIVE WalkDirs(_, _, _, _)
Walk(tree, dir, order) ==
    LET names == ListDir(tree, dir, order)
        filenames == SelectSeq(names, LAMBDA nm : IsFile(tree, dir \o <<nm>>))
        dirs == SelectSeq(names, LAMBDA nm : IsDir(tree, dir \o <<nm>>))
    IN  [i \in 1..Len(filenames) |-> dir \o <<filenames[i]>>]
            \o WalkDirs(tree, [i \in 1..Len(dirs) |-> dir \o <<dirs[i]>>], 1, order)
WalkDirs(tree, dirs, i, order) ==
    IF i > Len(dirs) THEN <<>>
    ELSE Walk(tree, dirs[i], order) \o WalkDirs(tree, dirs, i + 1, order)

\* lines 223-227: the HTML files of the tree in walk order
HtmlFiles(tree, order) ==
    SelectSeq(Walk(tree, <<>>, order), LAMBDA p : IsHtmlName(Basename(p)))

\* the copy taking the last HTML file of the walk instead of the first
EnsureIndexLastFile(tree, order) ==
    LET html_files == HtmlFiles(tree, order)
    IN  IF Exists(tree, <<IndexName>>) \/ html_files = <<>> THEN tree
        ELSE tree \cup {Entry(<<IndexName>>, FALSE,
                              ContentAt(tree, html_files[Len(html_files)]))}

\* lines 217-234: make sure extract_dir/index.html exists
EnsureIndex(tree, order) ==
    LET index_html_path == <<IndexName>>
        html_files == HtmlFiles(tree, order)
    IN  IF Exists(tree, index_html_path) THEN tree
        ELSE IF html_files # <<>>
        THEN tree \cup {Entry(index_html_path, FALSE, ContentAt(tree, html_files[1]))}
        ELSE tree

\* lines 250-257: the entries of processed.zip, one per file, named by the
\* file's path relative to extract_dir
ReArchived(tree) ==
    {[arcname |-> e.path, content |-> e.content] : e \in {f \in tree : ~ f.isdir}}

(***************************************************************************)
(* The hosting provider's answers to an outbound call.                     *)
(***************************************************************************)
NoProviderResponse == [kind |-> "no_response", status |-> 0, body |-> "", json |-> FALSE]
ProviderResponse(status, body, json) ==
    [kind |-> "response", status |-> status, body |-> body, json |-> json]
ProviderOutcomes ==
    { NoProviderResponse,
      ProviderResponse(200, "{id}", TRUE),
      ProviderResponse(200, "<html>", FALSE),
      ProviderResponse(401, "denied", TRUE),
      ProviderResponse(422, "", FALSE),
      ProviderResponse(503, "unavailable", FALSE) }

\* Response.raise_for_status() raises HTTPError
RaisesForStatus(r) == 400 <= r.status /\ r.status < 600

\* requests.post(...) then raise_for_status(): a RequestException is raised
CallFails(out) == out.kind = "no_response" \/ RaisesForStatus(out)

(***************************************************************************)
(* The responses of deploy_to_netlify.                                     *)
(***************************************************************************)
NoResponse == [status |-> 0, kind |-> "none", details |-> "", site_id |-> "", deploy_id |-> ""]
ErrorResponse(status, kind) ==
    [status |-> status, kind |-> kind, details |-> "", site_id |-> "", deploy_id |-> ""]

\* the handler ignoring e.response
ProviderFailureAlways500(out) == ErrorResponse(500, "deployment_failed")

\* lines 288-298: except requests.exceptions.RequestException
ProviderFailureResponse(out) ==
    IF out.kind = "response"
    THEN [status |-> out.status, kind |-> "netlify_failed", details |-> out.body,
          site_id |-> "", deploy_id |-> ""]
    ELSE ErrorResponse(500, "deployment_failed")

\* the calls without raise_for_status(): only a missing answer or an
\* unreadable body fails
CallResultUnchecked(out) ==
    IF out.kind = "no_response" THEN ProviderFailureResponse(out)
    ELSE IF ~ out.json THEN ErrorResponse(500, "deployment_failed")
    ELSE NoResponse

\* lines 241-246 and 268-273: the handler's reaction to a call's outcome:
\* "ok", or the response of the except clause that catches the failure
CallResult(out) ==
    IF CallFails(out) THEN ProviderFailureResponse(out)
    ELSE IF ~ out.json THEN ErrorResponse(500, "deployment_failed")  \* .json() raises
    ELSE NoResponse

\* BadZipFile falling through to the generic except clause
BadZipAsGenericFailure == ErrorResponse(500, "deployment_failed")

\* lines 285-287: except zipfile.BadZipFile
BadZipResponse == ErrorResponse(400, "invalid_zip")

DeployIdle ==
    /\ dpc = "idle"
    /\ api_key = PyNone
    /\ zip_file = [present |-> FALSE, filename |-> <<>>, is_zip |-> FALSE]
    /\ netlify_pat = PyNone
    /\ temp_dir = "None"
    /\ fs_temp = {}
    /\ extracted = {}
    /\ scan_order = <<>>
    /\ site_id = ""
    /\ processed_zip = {}
    /\ calls = <<>>
    /\ steps = <<>>
    /\ response = NoResponse
    /\ cleanup_failed = FALSE

UploadedFiles ==
    {[present |-> FALSE, filename |-> <<>>, is_zip |-> FALSE]}
        \cup [present : {TRUE}, filename : {<<>>, <<"s", ".zip">>}, is_zip : BOOLEAN]

\* the checks with the token test moved before the tests of the file
DeployRequestTokenFirst ==
    /\ dpc = "idle"
    /\ \E form \in FormKeys, header \in HeaderKeys, file \in UploadedFiles,
          pat \in EnvTokens :
         LET key == PyOr(form, header)
             early ==
                 IF Truthy(key) /\ ~ is_api_key_valid(key)
                 THEN ErrorResponse(401, "api_key_invalid")
                 ELSE IF ~ Truthy(pat) THEN ErrorResponse(500, "not_configured")
                 ELSE IF ~ file.present THEN ErrorResponse(400, "no_zip_file")
                 ELSE IF file.filename = <<>> THEN ErrorResponse(400, "no_selected_file")
                 ELSE NoResponse
         IN  /\ api_key' = key
             /\ zip_file' = file
             /\ netlify_pat' = pat
             /\ response' = early
             /\ dpc' = IF early = NoResponse THEN "mkdtemp" ELSE "done"
    /\ UNCHANGED <<temp_dir, fs_temp, extracted, scan_order, site_id,
                   processed_zip, calls, steps, cleanup_failed>>
    /\ UNCHANGED <<gvars, avars, mvars>>

\* lines 152-172: the checks before the try block
DeployRequest ==
    /\ dpc = "idle"
    /\ \E form \in FormKeys, header \in HeaderKeys, file \in UploadedFiles,
          pat \in EnvTokens :
         LET key == PyOr(form, header)
             early ==
                 IF Truthy(key) /\ ~ is_api_key_valid(key)
                 THEN ErrorResponse(401, "api_key_invalid")
                 ELSE IF ~ file.present THEN ErrorResponse(400, "no_zip_file")
                 ELSE IF file.filename = <<>> THEN ErrorResponse(400, "no_selected_file")
                 ELSE IF ~ Truthy(pat) THEN ErrorResponse(500, "not_configured")
                 ELSE NoResponse
         IN  /\ api_key' = key
             /\ zip_file' = file
             /\ netlify_pat' = pat
             /\ response' = early
             /\ dpc' = IF early = NoResponse THEN "mkdtemp" ELSE "done"
    /\ UNCHANGED <<temp_dir, fs_temp, extracted, scan_order, site_id,
                   processed_zip, calls, steps, cleanup_failed>>
    /\ UNCHANGED <<gvars, avars, mvars>>

\* lines 176-181: create the temporary directory and save the upload in it
MakeTempDir ==
    /\ dpc = "mkdtemp"
    /\ temp_dir' = "tmp1"
    /\ fs_temp' = fs_temp \cup {"tmp1"}
    /\ steps' = Append(steps, "save")
    /\ dpc' = "extract"
    /\ UNCHANGED <<api_key, zip_file, netlify_pat, extracted, scan_order, site_id,
                   processed_zip, calls, response, cleanup_failed>>
    /\ UNCHANGED <<gvars, avars, mvars>>

\* lines 183-190 and 285-287: extract the archive, or BadZipFile
Extract ==
    /\ dpc = "extract"
    /\ IF zip_file.is_zip
       THEN /\ \E t \in Trees, o \in ScanOrders :
                  /\ extracted' = t
                  /\ scan_order' = o
            /\ steps' = Append(steps, "extract")
            /\ dpc' = "flatten"
            /\ UNCHANGED response
       ELSE /\ response' = BadZipResponse
            /\ dpc' = "finally"
            /\ UNCHANGED <<extracted, scan_order, steps>>
    /\ UNCHANGED <<api_key, zip_file, netlify_pat, temp_dir, fs_temp, site_id,
                   processed_zip, calls, cleanup_failed>>
    /\ UNCHANGED <<gvars, avars, mvars>>

\* lines 203-215, and 299-301 when shutil.move raises
Flatten ==
    /\ dpc = "flatten"
    /\ LET r == FlattenTree(extracted, scan_order)
       IN  /\ extracted' = r.tree
           /\ IF r.ok
              THEN /\ steps' = Append(steps, "flatten")
                   /\ dpc' = "index"
                   /\ UNCHANGED response
              ELSE /\ response' = ErrorResponse(500, "deployment_failed")
                   /\ dpc' = "finally"
                   /\ UNCHANGED steps
    /\ UNCHANGED <<api_key, zip_file, netlify_pat, temp_dir, fs_temp, scan_order,
                   site_id, processed_zip, calls, cleanup_failed>>
    /\ UNCHANGED <<gvars, avars, mvars>>

\* lines 217-234
EntryPoint ==
    /\ dpc = "index"
    /\ extracted' = EnsureIndex(extracted, scan_order)
    /\ steps' = Append(steps, "index")
    /\ dpc' = "create"
    /\ UNCHANGED <<api_key, zip_file, netlify_pat, temp_dir, fs_temp, scan_order,
                   site_id, processed_zip, calls, response, cleanup_failed>>
    /\ UNCHANGED <<gvars, avars, mvars>>

\* lines 236-246: the site-creation call
CreateSite ==
    /\ dpc = "create"
    /\ \E out \in ProviderOutcomes :
         /\ calls' = Append(calls, [call |-> "create_site", outcome |-> out])
         /\ IF CallResult(out) = NoResponse
            THEN /\ site_id' = "site-1"
                 /\ steps' = Append(steps, "create")
                 /\ dpc' = "rearchive"
                 /\ UNCHANGED response
            ELSE /\ response' = CallResult(out)
                 /\ dpc' = "finally"
                 /\ UNCHANGED <<site_id, steps>>
    /\ UNCHANGED <<api_key, zip_file, netlify_pat, temp_dir, fs_temp, extracted,
                   scan_order, processed_zip, cleanup_failed>>
    /\ UNCHANGED <<gvars, avars, mvars>>

\* lines 248-259
ReArchive ==
    /\ dpc = "rearchive"
    /\ processed_zip' = ReArchived(extracted)
    /\ steps' = Append(steps, "rearchive")
    /\ dpc' = "deploy"
    /\ UNCHANGED <<api_key, zip_file, netlify_pat, temp_dir, fs_temp, extracted,
                   scan_order, site_id, calls, response, cleanup_failed>>
    /\ UNCHANGED <<gvars, avars, mvars>>

\* lines 261-283: the deploy upload and the success response
DeployUpload ==
    /\ dpc = "deploy"
    /\ \E out \in ProviderOutcomes :
         /\ calls' = Append(calls, [call |-> "deploy", outcome |-> out])
         /\ IF CallResult(out) = NoResponse
            THEN /\ response' = [status |-> 200, kind |-> "success", details |-> "",
                                 site_id |-> site_id, deploy_id |-> "deploy-1"]
                 /\ steps' = Append(steps, "deploy")
            ELSE /\ response' = CallResult(out)
                 /\ UNCHANGED steps
         /\ dpc' = "finally"
    /\ UNCHANGED <<api_key, zip_file, netlify_pat, temp_dir, fs_temp, extracted,
                   scan_order, site_id, processed_zip, cleanup_failed>>
    /\ UNCHANGED <<gvars, avars, mvars>>

\* the cleanup written as the last statement of the try block instead of a
\* finally block: it runs on the success path only
CleanupOnSuccessOnly ==
    /\ dpc = "finally"
    /\ IF response.status = 200 /\ temp_dir # "None" /\ temp_dir \in fs_temp
       THEN \E removed \in BOOLEAN :
              /\ fs_temp' = IF removed THEN fs_temp \ {temp_dir} ELSE fs_temp
              /\ cleanup_failed' = ~ removed
       ELSE UNCHANGED <<fs_temp, cleanup_failed>>
    /\ dpc' = "done"
    /\ UNCHANGED <<api_key, zip_file, netlify_pat, temp_dir, extracted, scan_order,
                   site_id, processed_zip, calls, steps, response>>
    /\ UNCHANGED <<gvars, avars, mvars>>

\* lines 302-309: the finally block; shutil.rmtree may raise, which is
\* logged and swallowed
Cleanup ==
    /\ dpc = "finally"
    /\ IF temp_dir # "None" /\ temp_dir \in fs_temp
       THEN \E removed \in BOOLEAN :
              /\ fs_temp' = IF removed THEN fs_temp \ {temp_dir} ELSE fs_temp
              /\ cleanup_failed' = ~ removed
       ELSE UNCHANGED <<fs_temp, cleanup_failed>>
    /\ dpc' = "done"
    /\ UNCHANGED <<api_key, zip_file, netlify_pat, temp_dir, extracted, scan_order,
                   site_id, processed_zip, calls, steps, response>>
    /\ UNCHANGED <<gvars, avars, mvars>>

NextDeploy ==
    \/ DeployRequest
    \/ MakeTempDir
    \/ Extract
    \/ Flatten
    \/ EntryPoint
    \/ CreateSite
    \/ ReArchive
    \/ DeployUpload
    \/ Cleanup


(***************************************************************************)
(* utils.py: the local-model backend, as one request sees it when no other *)
(* request runs.  A decoded output is a string; a word stands for its      *)
(* letters.                                                                *)
(***************************************************************************)
InitOutcomes == {"ok", "tokenizer_fails", "model_fails"}

\* initialize_model(), lines 55-196: load both globals when one is missing;
\* on a failure reset both and raise
initialize_model(m, t, io) ==
    IF m = "None" \/ t = "None"
    THEN IF io = "ok"
         THEN [raised |-> FALSE, model |-> "loaded", tokenizer |-> "loaded"]
         ELSE [raised |-> TRUE, model |-> "None", tokenizer |-> "None"]
    ELSE [raised |-> FALSE, model |-> m, tokenizer |-> t]

\* what model.generate and tokenizer.decode give: an exception or a string
GenRaises == [raised |-> TRUE, decoded |-> <<>>]
GenGives(s) == [raised |-> FALSE, decoded |-> s]
GenOutcomes ==
    {GenRaises} \cup {GenGives(s) : s \in {<<>>, <<" ">>, <<"Hindi">>,
                                          <<" ", "Tamil", " ">>, <<"Klingon">>}}

\* str.lower()
LowerWord(w) ==
    CASE w = "Hindi" -> "hindi"
      [] w = "Tamil" -> "tamil"
      [] w = "English" -> "english"
      [] w = "Klingon" -> "klingon"
      [] OTHER -> w
LowerStr(s) == [i \in 1..Len(s) |-> LowerWord(s[i])]

\* REVERSE_LANGUAGE_MAP.get(name, "en"), line 48 and 324, for three of
\* the languages of LANGUAGE_MAP
ReverseLanguageGet(name) ==
    CASE name = <<"hindi">> -> <<"hi">>
      [] name = <<"tamil">> -> <<"ta">>
      [] name = <<"english">> -> <<"en">>
      [] OTHER -> <<"en">>

\* the validity test of lines 221 and 288
TextRejected(text) ==
    ~ Truthy(text) \/ ~ IsStr(text) \/ ~ (Len(Strip(text.s)) > 0)

\* what a call did with the backend
Trace(init, gen) == [called |-> TRUE, init |-> init, gen |-> gen]
NotCalled == [called |-> FALSE, init |-> "not_reached", gen |-> "not_reached"]

Raised(m, t, trace) ==
    [raised |-> TRUE, value |-> PyNone, model |-> m, tokenizer |-> t, trace |-> trace]
Returned(v, m, t, trace) ==
    [raised |-> FALSE, value |-> v, model |-> m, tokenizer |-> t, trace |-> trace]

\* language_translate(text, target_language), lines 210-284
language_translate(text, target_language, m, t, io, gen) ==
    IF TextRejected(text)
    THEN Raised(m, t, Trace("not_reached", "not_reached"))      \* ValueError
    ELSE IF ~ IsStr(target_language)
    THEN Raised(m, t, Trace("not_reached", "not_reached"))      \* TypeError, line 224
    ELSE LET needed == m = "None" \/ t = "None"
             i == IF needed THEN initialize_model(m, t, io)
                  ELSE [raised |-> FALSE, model |-> m, tokenizer |-> t]
             init == IF ~ needed THEN "not_needed"
                     ELSE IF i.raised THEN "failed" ELSE "ok"
         IN  IF i.raised
             THEN Raised(i.model, i.tokenizer, Trace(init, "not_reached"))
             ELSE IF gen.raised
             THEN Raised(i.model, i.tokenizer, Trace(init, "failed"))
             ELSE IF ~ Truthy(PyStr(gen.decoded))
             THEN Raised(i.model, i.tokenizer, Trace(init, "ok"))   \* empty result
             ELSE Returned(PyStr(Strip(gen.decoded)), i.model, i.tokenizer,
                           Trace(init, "ok"))

\* detect_language(text), lines 286-330
detect_language(text, m, t, io, gen) ==
    IF TextRejected(text)
    THEN Raised(m, t, Trace("not_reached", "not_reached"))      \* ValueError
    ELSE LET needed == m = "None" \/ t = "None"
             i == IF needed THEN initialize_model(m, t, io)
                  ELSE [raised |-> FALSE, model |-> m, tokenizer |-> t]
             init == IF ~ needed THEN "not_needed"
                     ELSE IF i.raised THEN "failed" ELSE "ok"
         IN  IF i.raised
             THEN Returned(PyStr(<<"en">>), i.model, i.tokenizer,
                           Trace(init, "not_reached"))          \* lines 328-330
             ELSE IF gen.raised
             THEN Returned(PyStr(<<"en">>), i.model, i.tokenizer,
                           Trace(init, "failed"))               \* lines 328-330
             ELSE Returned(PyStr(ReverseLanguageGet(LowerStr(Strip(gen.decoded)))),
                           i.model, i.tokenizer, Trace(init, "ok"))

(***************************************************************************)
(* server.py: the two JSON routes.                                         *)
(***************************************************************************)
\* a field the JSON object does not have
Absent == [t |-> "absent", s |-> <<>>, n |-> 0]

\* dict.get(key) and dict.get(key, default)
Get(v) == IF v = Absent THEN PyNone ELSE v
GetDefault(v, d) == IF v = Absent THEN d ELSE v

\* request.get_json(): null, an array, or an object with these fields
JsonNull == [kind |-> "null", text |-> Absent, api_key |-> Absent,
             target_language |-> Absent]
JsonArray == [kind |-> "array", text |-> Absent, api_key |-> Absent,
              target_language |-> Absent]
TextValues == {Absent, PyNone, PyStr(<<>>), PyStr(<<" ">>), PyStr(<<"h">>),
               PyStr(<<" ", "h">>), PyInt(0), PyInt(5)}
KeyValues == {Absent, PyStr(<<>>), PyStr(<<" ">>), PyStr(<<"k">>),
              PyStr(<<"k", " ">>), PyInt(7)}
LanguageValues == {Absent, PyNone, PyStr(<<"hi">>), PyStr(<<"hi", "-", "IN">>)}
JsonBodies ==
    {JsonNull, JsonArray}
        \cup [kind : {"object"}, text : TextValues, api_key : KeyValues,
              target_language : LanguageValues]

\* bool(data)
DataTruthy(data) ==
    CASE data.kind = "null" -> FALSE
      [] data.kind = "array" -> TRUE
      [] OTHER -> ~ (data.text = Absent /\ data.api_key = Absent
                       /\ data.target_language = Absent)

ApiError(status, error) == [status |-> status, error |-> error, payload |-> PyNone]
ApiSuccess(payload) == [status |-> 200, error |-> "", payload |-> payload]
NoApiResponse == ApiError(0, "none")

\* the checks with the api_key tests moved before the text test
RequestChecksKeyFirst(data) ==
    IF ~ DataTruthy(data) THEN ApiError(400, "body_required")
    ELSE IF data.kind # "object" THEN ApiError(500, "internal")
    ELSE IF ~ Truthy(Get(data.api_key)) THEN ApiError(400, "api_key_required")
    ELSE IF ~ is_api_key_valid(Get(data.api_key)) THEN ApiError(401, "api_key_invalid")
    ELSE IF ~ Truthy(Get(data.text)) THEN ApiError(400, "text_required")
    ELSE NoApiResponse

\* lines 54-68 and 107-120: the checks before the backend is called;
\* NoApiResponse when the request passes them
RequestChecks(data) ==
    IF ~ DataTruthy(data) THEN ApiError(400, "body_required")
    ELSE IF data.kind # "object" THEN ApiError(500, "internal")   \* data.get raises
    ELSE IF ~ Truthy(Get(data.text)) THEN ApiError(400, "text_required")
    ELSE IF ~ Truthy(Get(data.api_key)) THEN ApiError(400, "api_key_required")
    ELSE IF ~ is_api_key_valid(Get(data.api_key)) THEN ApiError(401, "api_key_invalid")
    ELSE NoApiResponse

Handled(resp, m, t, trace) ==
    [response |-> resp, model |-> m, tokenizer |-> t, backend |-> trace]

\* translate_text(), lines 39-90
translate_text(data, m, t, io, gen) ==
    IF RequestChecks(data) # NoApiResponse
    THEN Handled(RequestChecks(data), m, t, NotCalled)
    ELSE LET r == language_translate(Get(data.text),
                                     GetDefault(data.target_language,
                                                PyStr(<<"en", "-", "IN">>)),
                                     m, t, io, gen)
         IN  IF r.raised
             THEN Handled(ApiError(500, "translation_failed"), r.model, r.tokenizer,
                          r.trace)
             ELSE Handled(ApiSuccess(r.value), r.model, r.tokenizer, r.trace)

\* detect_language_endpoint(), lines 94-140
detect_language_endpoint(data, m, t, io, gen) ==
    IF RequestChecks(data) # NoApiResponse
    THEN Handled(RequestChecks(data), m, t, NotCalled)
    ELSE LET r == detect_language(Get(data.text), m, t, io, gen)
         IN  IF r.raised
             THEN Handled(ApiError(500, "detection_failed"), r.model, r.tokenizer,
                          r.trace)
             ELSE Handled(ApiSuccess(r.value), r.model, r.tokenizer, r.trace)

ApiIdle ==
    /\ a_req = [endpoint |-> "none", data |-> JsonNull]
    /\ a_resp = NoApiResponse
    /\ a_backend = NotCalled

GlobalsUnloaded ==
    /\ model = "None"
    /\ tokenizer = "None"

\* a request arrives at one of the two routes
Receive ==
    /\ a_req.endpoint = "none" \/ a_resp # NoApiResponse
    /\ \E endpoint \in {"translate", "detect"}, data \in JsonBodies :
         a_req' = [endpoint |-> endpoint, data |-> data]
    /\ a_resp' = NoApiResponse
    /\ a_backend' = NotCalled
    /\ UNCHANGED <<dvars, gvars, mvars>>

\* POST /api/translate
Translate ==
    /\ a_req.endpoint = "translate"
    /\ a_resp = NoApiResponse
    /\ \E io \in InitOutcomes, gen \in GenOutcomes :
         LET h == translate_text(a_req.data, model, tokenizer, io, gen)
         IN  /\ a_resp' = h.response
             /\ a_backend' = h.backend
             /\ model' = h.model
             /\ tokenizer' = h.tokenizer
    /\ UNCHANGED <<a_req, dvars, mvars>>

\* POST /api/detect-language
DetectLanguage ==
    /\ a_req.endpoint = "detect"
    /\ a_resp = NoApiResponse
    /\ \E io \in InitOutcomes, gen \in GenOutcomes :
         LET h == detect_language_endpoint(a_req.data, model, tokenizer, io, gen)
         IN  /\ a_resp' = h.response
             /\ a_backend' = h.backend
             /\ model' = h.model
             /\ tokenizer' = h.tokenizer
    /\ UNCHANGED <<a_req, dvars, mvars>>

NextApi ==
    \/ Receive
    \/ Translate
    \/ DetectLanguage

(***************************************************************************)
(* utils.py under a threaded server: every request runs on its own thread, *)
(* and a thread may be preempted between any two reads or writes of the    *)
(* globals model and tokenizer.  No lock guards them.                      *)
(***************************************************************************)
NumThreads == 2
Threads == 1..NumThreads

ThreadsIdle ==
    /\ t_pc = [th \in Threads |-> "idle"]
    /\ t_fn = [th \in Threads |-> "none"]
    /\ t_result = [th \in Threads |-> "none"]
    /\ tok_loads = 0
    /\ model_loads = 0
    /\ init_failed = FALSE

Goto(th, pc) == t_pc' = [t_pc EXCEPT ![th] = pc]
Finish(th, result) ==
    /\ t_pc' = [t_pc EXCEPT ![th] = "done"]
    /\ t_result' = [t_result EXCEPT ![th] = result]

\* a request with valid text enters language_translate or detect_language
StartRequest(th) ==
    /\ t_pc[th] = "idle"
    /\ \E fn \in {"translate", "detect"} : t_fn' = [t_fn EXCEPT ![th] = fn]
    /\ t_result' = [t_result EXCEPT ![th] = "running"]
    /\ Goto(th, "check_model")
    /\ UNCHANGED <<model, tokenizer, tok_loads, model_loads, init_failed>>
    /\ UNCHANGED <<dvars, avars>>

\* lines 229 and 292, `model is None`
CheckModel(th) ==
    /\ t_pc[th] = "check_model"
    /\ Goto(th, IF model = "None" THEN "init_check_model" ELSE "check_tokenizer")
    /\ UNCHANGED <<model, tokenizer, t_fn, t_result, tok_loads, model_loads, init_failed>>
    /\ UNCHANGED <<dvars, avars>>

\* lines 229 and 292, `or tokenizer is None`
CheckTokenizer(th) ==
    /\ t_pc[th] = "check_tokenizer"
    /\ Goto(th, IF tokenizer = "None" THEN "init_check_model" ELSE "apply_template")
    /\ UNCHANGED <<model, tokenizer, t_fn, t_result, tok_loads, model_loads, init_failed>>
    /\ UNCHANGED <<dvars, avars>>

\* line 62, `model is None`
InitCheckModel(th) ==
    /\ t_pc[th] = "init_check_model"
    /\ Goto(th, IF model = "None" THEN "load_tokenizer" ELSE "init_check_tokenizer")
    /\ UNCHANGED <<model, tokenizer, t_fn, t_result, tok_loads, model_loads, init_failed>>
    /\ UNCHANGED <<dvars, avars>>

\* line 62, `or tokenizer is None`; initialize_model returns when both are set
InitCheckTokenizer(th) ==
    /\ t_pc[th] = "init_check_tokenizer"
    /\ Goto(th, IF tokenizer = "None" THEN "load_tokenizer" ELSE "apply_template")
    /\ UNCHANGED <<model, tokenizer, t_fn, t_result, tok_loads, model_loads, init_failed>>
    /\ UNCHANGED <<dvars, avars>>

\* lines 81-90: tokenizer = AutoTokenizer.from_pretrained(...), or it raises
LoadTokenizer(th) ==
    /\ t_pc[th] = "load_tokenizer"
    /\ \E ok \in BOOLEAN :
         IF ok
         THEN /\ tokenizer' = "loaded"
              /\ tok_loads' = tok_loads + 1
              /\ Goto(th, "load_model")
              /\ UNCHANGED init_failed
         ELSE /\ init_failed' = TRUE
              /\ Goto(th, "reset_model")
              /\ UNCHANGED <<tokenizer, tok_loads>>
    /\ UNCHANGED <<model, t_fn, t_result, model_loads>>
    /\ UNCHANGED <<dvars, avars>>

\* lines 104-158: model = AutoModelForCausalLM.from_pretrained(...), or it raises
LoadModel(th) ==
    /\ t_pc[th] = "load_model"
    /\ \E ok \in BOOLEAN :
         IF ok
         THEN /\ model' = "loaded"
              /\ model_loads' = model_loads + 1
              /\ Goto(th, "apply_template")
              /\ UNCHANGED init_failed
         ELSE /\ init_failed' = TRUE
              /\ Goto(th, "reset_model")
              /\ UNCHANGED <<model, model_loads>>
    /\ UNCHANGED <<tokenizer, t_fn, t_result, tok_loads>>
    /\ UNCHANGED <<dvars, avars>>

\* line 192: model = None
ResetModel(th) ==
    /\ t_pc[th] = "reset_model"
    /\ model' = "None"
    /\ Goto(th, "reset_tokenizer")
    /\ UNCHANGED <<tokenizer, t_fn, t_result, tok_loads, model_loads, init_failed>>
    /\ UNCHANGED <<dvars, avars>>

\* lines 193-196: tokenizer = None, then raise; the caller's except clause
\* ends the request
ResetTokenizer(th) ==
    /\ t_pc[th] = "reset_tokenizer"
    /\ tokenizer' = "None"
    /\ Finish(th, "init_error")
    /\ UNCHANGED <<model, t_fn, tok_loads, model_loads, init_failed>>
    /\ UNCHANGED <<dvars, avars>>

\* a use of the globals: AttributeError when a needed one is None
Use(th, needs_model, needs_tokenizer, next) ==
    /\ IF (needs_model /\ model = "None") \/ (needs_tokenizer /\ tokenizer = "None")
       THEN Finish(th, "null_use")
       ELSE IF next = "done" THEN Finish(th, "ok")
       ELSE Goto(th, next) /\ UNCHANGED t_result
    /\ UNCHANGED <<model, tokenizer, t_fn, tok_loads, model_loads, init_failed>>

\* lines 242 and 300: tokenizer.apply_chat_template(...)
ApplyTemplate(th) ==
    /\ t_pc[th] = "apply_template"
    /\ Use(th, FALSE, TRUE, "tokenize")
    /\ UNCHANGED <<dvars, avars>>

\* lines 249 and 306: tokenizer([prompt_text], ...).to(model.device)
Tokenize(th) ==
    /\ t_pc[th] = "tokenize"
    /\ Use(th, TRUE, TRUE, "generate")
    /\ UNCHANGED <<dvars, avars>>

\* lines 256-264 and 309-316: model.generate(..., pad_token_id=tokenizer.eos_token_id)
Generate(th) ==
    /\ t_pc[th] = "generate"
    /\ Use(th, TRUE, TRUE, "decode")
    /\ UNCHANGED <<dvars, avars>>

\* lines 270 and 319: tokenizer.decode(...)
Decode(th) ==
    /\ t_pc[th] = "decode"
    /\ Use(th, FALSE, TRUE, "done")
    /\ UNCHANGED <<dvars, avars>>

NextModel ==
    \E th \in Threads :
       \/ StartRequest(th)
       \/ CheckModel(th)
       \/ CheckTokenizer(th)
       \/ InitCheckModel(th)
       \/ InitCheckTokenizer(th)
       \/ LoadTokenizer(th)
       \/ LoadModel(th)
       \/ ResetModel(th)
       \/ ResetTokenizer(th)
       \/ ApplyTemplate(th)
       \/ Tokenize(th)
       \/ Generate(th)
       \/ Decode(th)

(***************************************************************************)
(* The specifications.                                                     *)
(***************************************************************************)
Init ==
    /\ DeployIdle
    /\ GlobalsUnloaded
    /\ ApiIdle
    /\ ThreadsIdle

SpecDeploy == Init /\ [][NextDeploy]_vars
SpecApi == Init /\ [][NextApi]_vars
SpecModel == Init /\ [][NextModel]_vars

(***************************************************************************)
(* Properties of the /deploy job (checked under SpecDeploy).               *)
(***************************************************************************)
JobCreatedTempDir == temp_dir # "None"

\* the key of the request is missing, or a string of white space only
KeyMissingOrBlank(k) == k = PyNone \/ (IsStr(k) /\ Len(k.s) > 0 /\ Strip(k.s) = <<>>)

FileSelected == zip_file.present /\ zip_file.filename # <<>>

RootEntries(tree) == {e \in tree : Len(e.path) = 1}
SingleRootDir(tree) ==
    Cardinality(RootEntries(tree)) = 1 /\ \A e \in RootEntries(tree) : e.isdir
ChildrenMovedUp(tree) ==
    {Entry(Tail(e.path), e.isdir, e.content) : e \in {f \in tree : Len(f.path) >= 2}}

\* C7: the flatten step turns a tree whose root holds exactly one directory D
\* into the tree of D's children, one level up with contents unchanged and D
\* gone (also when a child is named like D), leaves every other tree
\* unchanged, and the job goes on.
C7_FlattenOneLevel ==
    [][Flatten =>
         /\ extracted' = IF SingleRootDir(extracted) THEN ChildrenMovedUp(extracted)
                         ELSE extracted
         /\ dpc' = "index"]_vars

\* the first HTML file in directory-walk order, stated on paths: a
\* directory's own files come before those of its subdirectories, names within
\* a directory and sibling directories come in listing order
Rank(order, nm) == CHOOSE i \in 1..Len(order) : order[i] = nm
FirstDifference(a, b) == CHOOSE i \in 1..Len(a) : a[i] # b[i] /\ SubSeq(a, 1, i - 1) = SubSeq(b, 1, i - 1)
DirWalkedBefore(a, b, order) ==
    \/ IsPrefix(a, b)
    \/ /\ ~ IsPrefix(b, a)
       /\ Rank(order, a[FirstDifference(a, b)]) < Rank(order, b[FirstDifference(a, b)])
WalkedBefore(p, q, order) ==
    IF Parent(p) = Parent(q)
    THEN Rank(order, Basename(p)) < Rank(order, Basename(q))
    ELSE DirWalkedBefore(Parent(p), Parent(q), order)
HtmlFileSet(tree) ==
    {e.path : e \in {f \in tree : ~ f.isdir /\ IsHtmlName(Basename(f.path))}}
FirstHtmlFile(tree, order) ==
    CHOOSE p \in HtmlFileSet(tree) :
        \A q \in HtmlFileSet(tree) \ {p} : WalkedBefore(p, q, order)

\* C8: the entry-point step adds root index.html with the content of the
\* first HTML file in walk order when the root has none and the tree has an
\* HTML file, keeping every other entry; it leaves the tree unchanged when the
\* root has index.html or the tree has no HTML file; in each case the job is
\* not failed and goes on to site creation.
C8_EntryPoint ==
    [][EntryPoint =>
         /\ extracted' =
                IF Exists(extracted, <<IndexName>>) \/ HtmlFileSet(extracted) = {}
                THEN extracted
                ELSE extracted \cup
                       {Entry(<<IndexName>>, FALSE,
                              ContentAt(extracted, FirstHtmlFile(extracted, scan_order)))}
         /\ dpc' = "create"
         /\ response' = NoResponse]_vars

\* index.html at the root is a copy of an HTML file that is still in the
\* tree, beside a second HTML file that was not chosen
C8_Witness ==
    /\ dpc = "create"
    /\ \E e \in extracted, f \in extracted :
         /\ e.path = <<IndexName>>
         /\ f.path # e.path
         /\ ~ f.isdir
         /\ f.content = e.content
    /\ Cardinality(HtmlFileSet(extracted)) >= 3

\* C9, as stated: a selected file that is no valid zip, with the hosting
\* token configured, is answered 400 "invalid zip" and no call is issued.
C9_InvalidZipAlways400 ==
    (dpc = "done" /\ FileSelected /\ ~ zip_file.is_zip /\ Truthy(netlify_pat))
        => (response = ErrorResponse(400, "invalid_zip") /\ calls = <<>>)

\* C9, amended: a selected file that is no valid zip, with the hosting token
\* configured and an api_key that is absent or not blank, is answered 400
\* "invalid zip" and no call to the hosting provider is issued.
C9_InvalidZip400PastKeyGate ==
    (/\ dpc = "done"
     /\ FileSelected
     /\ ~ zip_file.is_zip
     /\ Truthy(netlify_pat)
     /\ (~ Truthy(api_key) \/ is_api_key_valid(api_key)))
        => (response = ErrorResponse(400, "invalid_zip") /\ calls = <<>>)

C9_Witness ==
    /\ dpc = "done"
    /\ FileSelected
    /\ ~ zip_file.is_zip
    /\ is_api_key_valid(api_key)
    /\ response.status = 400
    /\ JobCreatedTempDir

\* the outcome of the job's last outbound call
LastOutcome == calls[Len(calls)].outcome
ProviderRejected(out) == out.kind = "response" /\ out.status \notin 200..399
NoAnswer(out) == out.kind = "no_response"

\* C10: when the site-creation or deploy-upload call fails, the response
\* carries the provider's status code and body if the provider answered, and
\* 500 if it did not; it is never a 2xx.
C10_ProviderFailurePropagated ==
    (dpc \in {"finally", "done"} /\ calls # <<>>
       /\ (ProviderRejected(LastOutcome) \/ NoAnswer(LastOutcome)))
        => /\ ProviderRejected(LastOutcome) =>
                (response.status = LastOutcome.status
                   /\ response.details = LastOutcome.body)
           /\ NoAnswer(LastOutcome) => response.status = 500
           /\ response.status \notin 200..299

C10_Witness ==
    /\ dpc = "done"
    /\ Len(calls) = 2
    /\ response.status = 503
    /\ response.details = "unavailable"

TokenMissing == dpc # "idle" /\ ~ Truthy(netlify_pat)
NothingStarted ==
    /\ temp_dir = "None"
    /\ fs_temp = {}
    /\ extracted = {}
    /\ steps = <<>>
    /\ calls = <<>>

\* C11, as stated: without a hosting token every request with a selected
\* zip file is answered 500 and the job creates no temporary directory,
\* extracts nothing and issues no call; a missing or unselected file is
\* answered 400 first.
C11_NoTokenIs500 ==
    TokenMissing =>
        /\ dpc = "done"
        /\ NothingStarted
        /\ response.status = IF FileSelected THEN 500 ELSE 400

\* C11, amended: the same for every request whose api_key is absent or not
\* blank; a whitespace-only api_key is answered 401 before the file and the
\* token are looked at.
C11_NoTokenIs500PastKeyGate ==
    (TokenMissing /\ (~ Truthy(api_key) \/ is_api_key_valid(api_key))) =>
        /\ dpc = "done"
        /\ NothingStarted
        /\ response.status = IF FileSelected THEN 500 ELSE 400

C11_Witness ==
    /\ TokenMissing
    /\ netlify_pat = PyStr(<<>>)
    /\ FileSelected
    /\ zip_file.is_zip
    /\ is_api_key_valid(api_key)
    /\ dpc = "done"
    /\ response = ErrorResponse(500, "not_configured")

PipelineOrder ==
    <<"save", "extract", "flatten", "index", "create", "rearchive", "deploy">>
StepsInOrder ==
    /\ Len(steps) <= Len(PipelineOrder)
    /\ steps = SubSeq(PipelineOrder, 1, Len(steps))
StepTaken(s) == \E i \in 1..Len(steps) : steps[i] = s
CallSucceeded(c) == ~ CallFails(c.outcome) /\ c.outcome.json

\* C12: the steps of a job are taken in the order extract, flatten, entry
\* point, site creation, re-archive, deploy upload; the site-creation call
\* is issued at most once and only after extraction, flattening and the
\* entry-point step; the deploy upload is issued at most once and only after
\* the site-creation call succeeded and the tree was re-archived; no call is
\* issued twice; a 200 response needs both calls to have succeeded.
C12_PipelineOrder ==
    /\ StepsInOrder
    /\ Len(calls) <= 2
    /\ Len(calls) >= 1 =>
          /\ calls[1].call = "create_site"
          /\ StepTaken("extract") /\ StepTaken("flatten") /\ StepTaken("index")
    /\ Len(calls) = 2 =>
          /\ calls[2].call = "deploy"
          /\ CallSucceeded(calls[1])
          /\ StepTaken("create") /\ StepTaken("rearchive")
          /\ processed_zip = ReArchived(extracted)
    /\ response.status = 200 =>
          /\ Len(calls) = 2
          /\ CallSucceeded(calls[1]) /\ CallSucceeded(calls[2])
          /\ response.kind = "success"
          /\ response.site_id = site_id
          /\ StepTaken("deploy")
    /\ StepTaken("deploy") => response.status = 200

C12_Witness ==
    /\ dpc = "done"
    /\ response.status = 200
    /\ steps = PipelineOrder
    /\ Len(calls) = 2
    /\ CallSucceeded(calls[1]) /\ CallSucceeded(calls[2])

(***************************************************************************)
(* Properties of the JSON routes (checked under SpecApi).                  *)
(***************************************************************************)
RequestAnswered == a_resp # NoApiResponse
ReqText == Get(a_req.data.text)
ReqKey == Get(a_req.data.api_key)
ReqIsObject == a_req.data.kind = "object"
TextIsNonBlankString == IsStr(ReqText) /\ Len(Strip(ReqText.s)) > 0
LanguageUsable == IsStr(GetDefault(a_req.data.target_language, PyStr(<<"en", "-", "IN">>)))
KeyIsNonBlankString == IsStr(ReqKey) /\ Len(Strip(ReqKey.s)) > 0

\* C3: on each gated endpoint a request whose api_key is missing or
\* white space only, and otherwise valid, is answered 401 and reaches neither
\* the translation backend nor the hosting provider.
C3_BlankKeyIs401 ==
    /\ (dpc # "idle" /\ KeyMissingOrBlank(api_key) /\ FileSelected /\ zip_file.is_zip
          /\ Truthy(netlify_pat))
         => (calls = <<>> /\ (dpc = "done" => response.status = 401))
    /\ (RequestAnswered /\ ReqIsObject /\ TextIsNonBlankString /\ LanguageUsable
          /\ KeyMissingOrBlank(ReqKey))
         => (a_resp.status = 401 /\ ~ a_backend.called)

\* C4: on both JSON routes a body whose text is missing or the empty
\* string is answered 400 whatever the api_key is, and the backend is not
\* invoked.
C4_MissingTextIs400 ==
    (RequestAnswered /\ ReqIsObject /\ ReqText \in {PyNone, PyStr(<<>>)})
        => (a_resp.status = 400 /\ ~ a_backend.called)

\* the text is empty and the key is blank: the text check answers first
C4_Witness ==
    /\ RequestAnswered
    /\ a_req.data.text = PyStr(<<>>)
    /\ a_req.data.api_key = PyStr(<<" ">>)
    /\ a_resp.status = 400
    /\ model = "loaded"

\* C5: /api/translate answers every non-empty text with a valid api_key
\* by 200 and a non-empty translated_text, whatever the backend gives back
\* (white space included) and also for a text of white space only.
C5_TranslateGivesNonEmptyText ==
    (/\ RequestAnswered
     /\ a_req.endpoint = "translate"
     /\ ReqIsObject
     /\ IsStr(ReqText) /\ Truthy(ReqText)
     /\ KeyIsNonBlankString
     /\ LanguageUsable
     /\ a_backend.init # "failed"
     /\ a_backend.gen # "failed")
        => (a_resp.status = 200 /\ IsStr(a_resp.payload) /\ Len(a_resp.payload.s) > 0)

\* C6: /api/detect-language with valid text and key answers 500 when
\* model initialization or generation fails, and answers 200 with a
\* language_code only when the backend produced a detection.
C6_DetectFailureIs500 ==
    (/\ RequestAnswered
     /\ a_req.endpoint = "detect"
     /\ ReqIsObject
     /\ TextIsNonBlankString
     /\ KeyIsNonBlankString)
        => /\ (a_backend.init = "failed" \/ a_backend.gen = "failed") => a_resp.status = 500
           /\ a_resp.status = 200 => a_backend.gen = "ok"

\* C13: on both JSON routes a text that is empty, white space only or
\* not a string is answered with a 4xx status, and neither the model
\* initialization nor the generation is reached for it.
C13_InvalidTextIs4xx ==
    (RequestAnswered /\ ReqIsObject /\ TextRejected(ReqText))
        => /\ a_resp.status \in 400..499
           /\ a_backend.init = "not_reached"
           /\ a_backend.gen = "not_reached"

(***************************************************************************)
(* Properties of the lazily initialised globals (checked under SpecModel). *)
(***************************************************************************)
\* C2: as long as no initialization fails, the model and the tokenizer
\* are each loaded at most once, whatever the interleaving of the requests.
C2_LoadedAtMostOnce ==
    ~ init_failed => (model_loads <= 1 /\ tok_loads <= 1)

PastFirstUseCheck(th) ==
    t_pc[th] \in {"apply_template", "tokenize", "generate", "decode", "done"}
RunsAlone(th) == \A other \in Threads \ {th} : t_pc[other] = "idle"

\* C14: no request that got past its first-use check ever uses model or
\* tokenizer while it is None, whatever the other requests do (a failing
\* initializer included); and when initialize_model has returned or raised
\* in a request that runs alone, the two globals are both loaded or both
\* None.
C14_PairConsistent ==
    /\ \A th \in Threads : t_result[th] # "null_use"
    /\ \A th \in Threads :
          (RunsAlone(th) /\ PastFirstUseCheck(th))
              => ((model = "None") <=> (tokenizer = "None"))

====
